---- MODULE Spec2Model ----
(***************************************************************************)
(* Model of wasm/src/lib.rs: the LTTB downsampler and the indicator        *)
(* engine (SMA, EMA, RSI, VWAP).                                           *)
(*                                                                         *)
(* Every function is pure: a state is one call in flight (the entry point  *)
(* that was invoked and its arguments) and, once the call has run, the     *)
(* sequence it returned, or the fact that it panicked.                     *)
(*                                                                         *)
(* f64 values are IEEE 754 binary64 values, and every operation on them    *)
(* rounds to nearest, ties to even, as on the target: infinities, NaN,     *)
(* signed zeros and subnormals included.                                   *)
(***************************************************************************)
EXTENDS Integers, Sequences, FiniteSets, TLC

VARIABLES fn, data, threshold, bars, period, opts, pc, result

vars == <<fn, data, threshold, bars, period, opts, pc, result>>

(***************************************************************************)
(* Bounds of the explored inputs.                                          *)
(***************************************************************************)
MaxLen == 6          \* longest sample sequence given to lttb_downsample
MaxValue == 1        \* sample values are 0..MaxValue
MaxThreshold == 5    \* thresholds are 0..MaxThreshold
MaxBars == 4         \* longest bar sequence given to sma / ema / rsi
MaxClose == 3        \* closes are 1..MaxClose
MaxPeriod == 4       \* periods are 0..MaxPeriod
MaxVwapBars == 2     \* longest bar sequence given to vwap
MaxVolume == 2       \* volumes are 0..MaxVolume
MaxGap == 5          \* timestamp gaps of vwap bars are 1 or MaxGap

(***************************************************************************)
(* Natural numbers of any size, as sequences of limbs in base 2^15, least  *)
(* significant limb first and no zero limb at the top; <<>> is zero.  They *)
(* carry the 53-bit significands of f64 and the wider intermediate values  *)
(* that are rounded to them.                                               *)
(***************************************************************************)
LimbBits == 15

Base == 32768

Min(a, b) == IF a < b THEN a ELSE b

Max(a, b) == IF a > b THEN a ELSE b

Abs(x) == IF x < 0 THEN -x ELSE x

RECURSIVE BTrim(_)
BTrim(a) ==
    IF a # <<>> /\ a[Len(a)] = 0 THEN BTrim(SubSeq(a, 1, Len(a) - 1)) ELSE a

RECURSIVE BOfInt(_)
BOfInt(n) == IF n = 0 THEN <<>> ELSE <<n % Base>> \o BOfInt(n \div Base)

RECURSIVE BToInt(_)
BToInt(a) == IF a = <<>> THEN 0 ELSE a[1] + Base * BToInt(Tail(a))

BLimb(a, i) == IF i <= Len(a) THEN a[i] ELSE 0

RECURSIVE BAddFrom(_, _, _, _)
BAddFrom(a, b, i, carry) ==
    IF i > Len(a) /\ i > Len(b)
    THEN IF carry = 0 THEN <<>> ELSE <<carry>>
    ELSE LET s == BLimb(a, i) + BLimb(b, i) + carry
         IN  <<s % Base>> \o BAddFrom(a, b, i + 1, s \div Base)

BAdd(a, b) == BAddFrom(a, b, 1, 0)

RECURSIVE BSubFrom(_, _, _, _)
BSubFrom(a, b, i, borrow) ==
    IF i > Len(a) THEN <<>>
    ELSE LET s == a[i] - BLimb(b, i) - borrow
         IN  IF s < 0 THEN <<s + Base>> \o BSubFrom(a, b, i + 1, 1)
                      ELSE <<s>> \o BSubFrom(a, b, i + 1, 0)

\* a - b for a >= b
BSub(a, b) == BTrim(BSubFrom(a, b, 1, 0))

RECURSIVE BCmpFrom(_, _, _)
BCmpFrom(a, b, i) ==
    IF i = 0 THEN 0
    ELSE IF a[i] < b[i] THEN -1
    ELSE IF a[i] > b[i] THEN 1
    ELSE BCmpFrom(a, b, i - 1)

\* -1, 0 or 1 as a is below, equal to or above b
BCmp(a, b) ==
    IF Len(a) < Len(b) THEN -1
    ELSE IF Len(a) > Len(b) THEN 1
    ELSE BCmpFrom(a, b, Len(a))

RECURSIVE BMulSmallFrom(_, _, _, _)
BMulSmallFrom(a, k, i, carry) ==
    IF i > Len(a)
    THEN IF carry = 0 THEN <<>> ELSE <<carry>>
    ELSE LET p == a[i] * k + carry
         IN  <<p % Base>> \o BMulSmallFrom(a, k, i + 1, p \div Base)

\* a * k for one limb k
BMulSmall(a, k) == IF k = 0 THEN <<>> ELSE BMulSmallFrom(a, k, 1, 0)

\* a * Base^n
BShiftLimbs(a, n) == IF a = <<>> THEN <<>> ELSE [i \in 1..n |-> 0] \o a

RECURSIVE BMulFrom(_, _, _)
BMulFrom(a, b, i) ==
    IF i > Len(b) THEN <<>>
    ELSE BAdd(BShiftLimbs(BMulSmall(a, b[i]), i - 1), BMulFrom(a, b, i + 1))

BMul(a, b) == BMulFrom(a, b, 1)

\* a * 2^n
BShl(a, n) == BShiftLimbs(BMulSmall(a, 2 ^ (n % LimbBits)), n \div LimbBits)

\* a \div 2^n
BShr(a, n) ==
    LET q == n \div LimbBits
        r == n % LimbBits
        t == IF q >= Len(a) THEN <<>> ELSE SubSeq(a, q + 1, Len(a))
    IN  BTrim([i \in 1..Len(t) |->
                 (t[i] \div 2 ^ r) + (BLimb(t, i + 1) % 2 ^ r) * 2 ^ (LimbBits - r)])

\* bit n of a, bit 0 being the least significant
BBit(a, n) == (BLimb(a, n \div LimbBits + 1) \div 2 ^ (n % LimbBits)) % 2

\* a % 2^n # 0
BLowNonzero(a, n) ==
    \/ \E i \in 1..Min(n \div LimbBits, Len(a)) : a[i] # 0
    \/ BLimb(a, n \div LimbBits + 1) % 2 ^ (n % LimbBits) # 0

RECURSIVE BitLen(_)
BitLen(x) == IF x = 0 THEN 0 ELSE 1 + BitLen(x \div 2)

\* number of bits of a: the least n with a < 2^n
BBitLen(a) ==
    IF a = <<>> THEN 0 ELSE LimbBits * (Len(a) - 1) + BitLen(a[Len(a)])

RECURSIVE TrailingZeros(_)
TrailingZeros(x) == IF x % 2 = 1 THEN 0 ELSE 1 + TrailingZeros(x \div 2)

RECURSIVE BTrailingZerosFrom(_, _)
BTrailingZerosFrom(a, i) ==
    IF a[i] # 0 THEN LimbBits * (i - 1) + TrailingZeros(a[i])
    ELSE BTrailingZerosFrom(a, i + 1)

\* number of zero bits below the lowest set bit of a # 0
BTrailingZeros(a) == BTrailingZerosFrom(a, 1)

RECURSIVE BDivSmallFrom(_, _, _, _, _)
BDivSmallFrom(a, k, i, q, r) ==
    IF i = 0 THEN <<BTrim(q), BOfInt(r)>>
    ELSE LET cur == r * Base + a[i]
         IN  BDivSmallFrom(a, k, i - 1, <<cur \div k>> \o q, cur % k)

\* the largest digit d in lo..hi with b * d <= r, given b * lo <= r
RECURSIVE BDivDigit(_, _, _, _)
BDivDigit(r, b, lo, hi) ==
    IF lo = hi THEN lo
    ELSE LET mid == (lo + hi + 1) \div 2
         IN  IF BCmp(BMulSmall(b, mid), r) <= 0
             THEN BDivDigit(r, b, mid, hi)
             ELSE BDivDigit(r, b, lo, mid - 1)

RECURSIVE BDivLongFrom(_, _, _, _, _)
BDivLongFrom(a, b, i, q, r) ==
    IF i = 0 THEN <<BTrim(q), r>>
    ELSE LET cur == BTrim(<<a[i]>> \o r)
             d == BDivDigit(cur, b, 0, Base - 1)
         IN  BDivLongFrom(a, b, i - 1, <<d>> \o q, BSub(cur, BMulSmall(b, d)))

\* <<a \div b, a % b>> for b # 0, one limb of the quotient at a time: short
\* division by a divisor of one limb, long division otherwise
BDivMod(a, b) ==
    IF Len(b) = 1 THEN BDivSmallFrom(a, b[1], Len(a), <<>>, 0)
    ELSE BDivLongFrom(a, b, Len(a), <<>>, <<>>)

(***************************************************************************)
(* f64: IEEE 754 binary64 with round-to-nearest-even, the arithmetic of    *)
(* the target.  A finite value is s, m, e for (-1)^s * m * 2^e with m odd  *)
(* and below 2^53, or m = <<>>, e = 0 for a zero; subnormals are the       *)
(* values with e = MinExp.  Every NaN is the one value NaN: the code never *)
(* looks at the sign or the payload of a NaN.                              *)
(***************************************************************************)
MantBits == 53

MinExp == -1074

MaxExp == 1024

NaN == [k |-> "nan", s |-> 0, m |-> <<>>, e |-> 0]

Inf(s) == [k |-> "inf", s |-> s, m |-> <<>>, e |-> 0]

Zero(s) == [k |-> "fin", s |-> s, m |-> <<>>, e |-> 0]

IsNaN(a) == a.k = "nan"

IsInf(a) == a.k = "inf"

IsZero(a) == a.k = "fin" /\ a.m = <<>>

\* the f64 that is exactly (-1)^s * m * 2^e, m of at most 53 bits and
\* e >= MinExp, or the infinity when that is beyond the largest f64
Canon(s, m, e) ==
    IF m = <<>> THEN Zero(s)
    ELSE IF BBitLen(m) + e > MaxExp THEN Inf(s)
    ELSE LET tz == BTrailingZeros(m)
         IN  [k |-> "fin", s |-> s, m |-> BShr(m, tz), e |-> e + tz]

\* the f64 nearest to (-1)^s * (m + f) * 2^e, ties to the even significand,
\* where 0 <= f < 1 and f # 0 iff sticky
Round(s, m, e, sticky) ==
    LET drop == Max(BBitLen(m) - MantBits, MinExp - e)
    IN  IF drop <= 0 THEN Canon(s, m, e)
        ELSE LET q == BShr(m, drop)
                 half == BBit(m, drop - 1) = 1
                 rest == sticky \/ BLowNonzero(m, drop - 1)
                 up == half /\ (rest \/ BBit(q, 0) = 1)
             IN  Canon(s, IF up THEN BAdd(q, <<1>>) ELSE q, e + drop)

\* `x as f64` for an integer x of the model
F(x) == Canon(IF x < 0 THEN 1 ELSE 0, BOfInt(Abs(x)), 0)

FNeg(a) == IF IsNaN(a) THEN NaN ELSE [a EXCEPT !.s = 1 - a.s]

FAbs(a) == [a EXCEPT !.s = 0]

\* a + t (same) or a - t for a finite a # 0 and some t with
\* 0 < t < 2^-3 * the last place of a 56-bit significand of a
FAddTiny(a, same) ==
    LET n == MantBits + 3 - BBitLen(a.m)
        x == BShl(a.m, n)
    IN  Round(a.s, IF same THEN x ELSE BSub(x, <<1>>), a.e - n, TRUE)

FAdd(a, b) ==
    IF IsNaN(a) \/ IsNaN(b) THEN NaN
    ELSE IF IsInf(a) THEN (IF IsInf(b) /\ b.s # a.s THEN NaN ELSE a)
    ELSE IF IsInf(b) THEN b
    ELSE IF IsZero(a) /\ IsZero(b) THEN Zero(IF a.s = 1 /\ b.s = 1 THEN 1 ELSE 0)
    ELSE IF IsZero(a) THEN b
    ELSE IF IsZero(b) THEN a
    ELSE IF BBitLen(a.m) + a.e - (BBitLen(b.m) + b.e) > MantBits + 3
    THEN FAddTiny(a, a.s = b.s)
    ELSE IF BBitLen(b.m) + b.e - (BBitLen(a.m) + a.e) > MantBits + 3
    THEN FAddTiny(b, a.s = b.s)
    ELSE LET e == Min(a.e, b.e)
             x == BShl(a.m, a.e - e)
             y == BShl(b.m, b.e - e)
             c == BCmp(x, y)
         IN  IF a.s = b.s THEN Round(a.s, BAdd(x, y), e, FALSE)
             ELSE IF c = 0 THEN Zero(0)
             ELSE IF c > 0 THEN Round(a.s, BSub(x, y), e, FALSE)
             ELSE Round(b.s, BSub(y, x), e, FALSE)

FSub(a, b) == FAdd(a, FNeg(b))

FMul(a, b) ==
    LET s == (a.s + b.s) % 2
    IN  IF IsNaN(a) \/ IsNaN(b) THEN NaN
        ELSE IF IsInf(a) \/ IsInf(b)
        THEN (IF IsZero(a) \/ IsZero(b) THEN NaN ELSE Inf(s))
        ELSE IF IsZero(a) \/ IsZero(b) THEN Zero(s)
        ELSE Round(s, BMul(a.m, b.m), a.e + b.e, FALSE)

FDiv(a, b) ==
    LET s == (a.s + b.s) % 2
    IN  IF IsNaN(a) \/ IsNaN(b) THEN NaN
        ELSE IF IsInf(a) THEN (IF IsInf(b) THEN NaN ELSE Inf(s))
        ELSE IF IsInf(b) THEN Zero(s)
        ELSE IF IsZero(b) THEN (IF IsZero(a) THEN NaN ELSE Inf(s))
        ELSE IF IsZero(a) THEN Zero(s)
        ELSE LET n == Max(0, MantBits + 3 + BBitLen(b.m) - BBitLen(a.m))
                 qr == BDivMod(BShl(a.m, n), b.m)
             IN  Round(s, qr[1], a.e - b.e - n, qr[2] # <<>>)

\* -1, 0 or 1 as |a| is below, equal to or above |b|; neither is NaN
MagCmp(a, b) ==
    IF IsInf(a) THEN (IF IsInf(b) THEN 0 ELSE 1)
    ELSE IF IsInf(b) THEN -1
    ELSE IF IsZero(a) THEN (IF IsZero(b) THEN 0 ELSE -1)
    ELSE IF IsZero(b) THEN 1
    ELSE LET ta == BBitLen(a.m) + a.e
             tb == BBitLen(b.m) + b.e
             e == Min(a.e, b.e)
         IN  IF ta < tb THEN -1
             ELSE IF ta > tb THEN 1
             ELSE BCmp(BShl(a.m, a.e - e), BShl(b.m, b.e - e))

\* -1, 0 or 1 as a is below, equal to or above b; neither is NaN
FCmp(a, b) ==
    IF IsZero(a) /\ IsZero(b) THEN 0
    ELSE IF a.s # b.s THEN (IF a.s = 1 THEN -1 ELSE 1)
    ELSE IF a.s = 1 THEN MagCmp(b, a)
    ELSE MagCmp(a, b)

FEq(a, b) == ~IsNaN(a) /\ ~IsNaN(b) /\ FCmp(a, b) = 0

FLt(a, b) == ~IsNaN(a) /\ ~IsNaN(b) /\ FCmp(a, b) < 0

FGt(a, b) == FLt(b, a)

FLe(a, b) == ~IsNaN(a) /\ ~IsNaN(b) /\ FCmp(a, b) <= 0

\* f64::min: the other operand when one is NaN
FMin(a, b) == IF IsNaN(a) THEN b ELSE IF IsNaN(b) THEN a
              ELSE IF FLt(b, a) THEN b ELSE a

\* f64::floor
FFloor(a) ==
    IF a.k # "fin" \/ a.e >= 0 THEN a
    ELSE LET q == BShr(a.m, -a.e)
         IN  IF a.s = 0 THEN Canon(0, q, 0)
             ELSE Round(1, BAdd(q, <<1>>), 0, FALSE)

\* s[j] with the 0-based index of the source
At(s, j) == s[j + 1]

(***************************************************************************)
(* usize arithmetic.  USIZE_MAX stands for usize::MAX: the target's value  *)
(* (2^32 - 1 on wasm32) is beyond the integers of the model checker, whose *)
(* largest integer takes its place.  The code's behaviour at usize::MAX    *)
(* rests only on `period + 1` not fitting a usize.                         *)
(***************************************************************************)
USIZE_MAX == 2147483647

\* a + b does not fit a usize
UsizeOverflows(a, b) == a > USIZE_MAX - b

\* a + b as a build without overflow checks computes it
UsizeWrappingAdd(a, b) ==
    IF UsizeOverflows(a, b) THEN a - (USIZE_MAX - b) - 1 ELSE a + b

\* `a as usize`: the integer part, 0 for NaN and what is below 0, usize::MAX
\* for what is above it
AsUsize(a) ==
    IF IsNaN(a) \/ a.s = 1 THEN 0
    ELSE IF IsInf(a) \/ BBitLen(a.m) + a.e > 31 THEN USIZE_MAX
    ELSE BToInt(IF a.e >= 0 THEN BShl(a.m, a.e) ELSE BShr(a.m, -a.e))

(***************************************************************************)
(* Types.                                                                  *)
(***************************************************************************)
DataPoint(ts, value) == [ts |-> ts, value |-> value]

PricePoint(ts, open, high, low, close, volume) ==
    [ts |-> ts, open |-> open, high |-> high, low |-> low,
     close |-> close, volume |-> volume]

IndicatorPoint(ts, value) == [ts |-> ts, value |-> value]

(***************************************************************************)
(* lttb_downsample_impl                                                    *)
(***************************************************************************)
\* (len - 2) as f64 / (threshold - 2) as f64
BucketSize(len, thr) == FDiv(F(len - 2), F(thr - 2))

\* BucketStart without the offset that skips the first sample
BucketStart_NoOffset(i, bucket_size) ==
    AsUsize(FFloor(FMul(F(i), bucket_size)))

\* ((i as f64 * bucket_size) + 1.0).floor() as usize
BucketStart(i, bucket_size) ==
    AsUsize(FFloor(FAdd(FMul(F(i), bucket_size), F(1))))

\* (((i + 1) as f64 * bucket_size) + 1.0).floor().min(len as f64) as usize
BucketEnd(i, bucket_size, len) ==
    AsUsize(FMin(FFloor(FAdd(FMul(F(i + 1), bucket_size), F(1))), F(len)))

\* the accumulation `for j in lo..hi { acc += data[j].<field> }`
RECURSIVE SumTs(_, _, _, _)
SumTs(d, j, hi, acc) ==
    IF j >= hi THEN acc ELSE SumTs(d, j + 1, hi, FAdd(acc, At(d, j).ts))

RECURSIVE SumValue(_, _, _, _)
SumValue(d, j, hi, acc) ==
    IF j >= hi THEN acc ELSE SumValue(d, j + 1, hi, FAdd(acc, At(d, j).value))

\* average point of the next bucket
NextBucketAvg(d, i, bucket_size) ==
    LET len == Len(d)
        next_bucket_start == BucketStart(i + 1, bucket_size)
        next_bucket_end == BucketEnd(i + 1, bucket_size, len)
        next_bucket_len == Max(next_bucket_end - next_bucket_start, 1)
    IN  [ts |-> FDiv(SumTs(d, next_bucket_start, Min(next_bucket_end, len), F(0)),
                     F(next_bucket_len)),
         value |-> FDiv(SumValue(d, next_bucket_start, Min(next_bucket_end, len), F(0)),
                        F(next_bucket_len))]

\* doubled triangle area, sign dropped
TriangleArea(prev, avg, p) ==
    FAbs(FSub(FMul(FSub(prev.ts, avg.ts), FSub(p.value, prev.value)),
              FMul(FSub(prev.ts, p.ts), FSub(avg.value, prev.value))))

\* ScanBucket taking a later point of equal area (`area >= max_area`)
RECURSIVE ScanBucket_LastMax(_, _, _, _, _, _, _)
ScanBucket_LastMax(d, j, hi, prev, avg, max_area, max_idx) ==
    IF j >= hi THEN max_idx
    ELSE LET area == TriangleArea(prev, avg, At(d, j))
         IN  IF FGt(area, max_area) \/ FEq(area, max_area)
             THEN ScanBucket_LastMax(d, j + 1, hi, prev, avg, area, j)
             ELSE ScanBucket_LastMax(d, j + 1, hi, prev, avg, max_area, max_idx)

\* the scan `for j in bucket_start..bucket_end.min(len)`; yields max_idx
RECURSIVE ScanBucket(_, _, _, _, _, _, _)
ScanBucket(d, j, hi, prev, avg, max_area, max_idx) ==
    IF j >= hi THEN max_idx
    ELSE LET area == TriangleArea(prev, avg, At(d, j))
         IN  IF FGt(area, max_area)
             THEN ScanBucket(d, j + 1, hi, prev, avg, area, j)
             ELSE ScanBucket(d, j + 1, hi, prev, avg, max_area, max_idx)

\* max_idx of bucket i
SelectInBucket(d, thr, i, prev_selected) ==
    LET len == Len(d)
        bucket_size == BucketSize(len, thr)
        bucket_start == BucketStart(i, bucket_size)
        bucket_end == BucketEnd(i, bucket_size, len)
    IN  ScanBucket(d, bucket_start, Min(bucket_end, len), At(d, prev_selected),
                   NextBucketAvg(d, i, bucket_size), F(-1), bucket_start)

\* LttbLoop running one bucket too many (`0..(threshold - 1)`)
RECURSIVE LttbLoop_OneMore(_, _, _, _, _)
LttbLoop_OneMore(d, thr, i, prev_selected, res) ==
    IF i >= thr - 1 THEN res
    ELSE LET max_idx == SelectInBucket(d, thr, i, prev_selected)
         IN  LttbLoop_OneMore(d, thr, i + 1, max_idx, Append(res, At(d, max_idx)))

\* the loop `for i in 0..(threshold - 2)`
RECURSIVE LttbLoop(_, _, _, _, _)
LttbLoop(d, thr, i, prev_selected, res) ==
    IF i >= thr - 2 THEN res
    ELSE LET max_idx == SelectInBucket(d, thr, i, prev_selected)
         IN  LttbLoop(d, thr, i + 1, max_idx, Append(res, At(d, max_idx)))

\* lttb_downsample_impl answering a threshold below 3 with an empty vector
lttb_downsample_impl_EmptyBelow3(d, thr) ==
    LET len == Len(d)
    IN  IF len = 0 \/ thr < 3 THEN <<>>
        ELSE IF len <= thr THEN d
        ELSE Append(LttbLoop(d, thr, 0, 0, <<At(d, 0)>>), At(d, len - 1))

lttb_downsample_impl(d, thr) ==
    LET len == Len(d)
    IN  IF len = 0 THEN <<>>
        ELSE IF thr < 3 \/ len <= thr THEN d
        ELSE Append(LttbLoop(d, thr, 0, 0, <<At(d, 0)>>), At(d, len - 1))

(***************************************************************************)
(* calc_sma_impl                                                           *)
(***************************************************************************)
\* the value Iterator::sum folds from for f64: -0.0, so that the sum of
\* closes that are all -0.0 is -0.0
SumSeed == Zero(1)

\* data[lo..hi].iter().map(|p| p.close).sum(), as the fold from acc
RECURSIVE SumClose(_, _, _, _)
SumClose(d, j, hi, acc) ==
    IF j >= hi THEN acc ELSE SumClose(d, j + 1, hi, FAdd(acc, At(d, j).close))

\* SmaLoop dropping the close one bar too late (`data[i - period + 1]`)
RECURSIVE SmaLoop_DropLate(_, _, _, _, _)
SmaLoop_DropLate(d, per, i, window_sum, res) ==
    IF i >= Len(d) THEN res
    ELSE LET ws == FAdd(window_sum, FSub(At(d, i).close, At(d, i - per + 1).close))
         IN  SmaLoop_DropLate(d, per, i + 1, ws,
                     Append(res, IndicatorPoint(At(d, i).ts, FDiv(ws, F(per)))))

\* the loop `for i in period..data.len()`
RECURSIVE SmaLoop(_, _, _, _, _)
SmaLoop(d, per, i, window_sum, res) ==
    IF i >= Len(d) THEN res
    ELSE LET ws == FAdd(window_sum, FSub(At(d, i).close, At(d, i - per).close))
         IN  SmaLoop(d, per, i + 1, ws,
                     Append(res, IndicatorPoint(At(d, i).ts, FDiv(ws, F(per)))))

\* calc_sma_impl rejecting period == len (`period >= data.len()`)
calc_sma_impl_RejectFull(d, per) ==
    IF per = 0 \/ per >= Len(d) THEN <<>>
    ELSE LET window_sum == SumClose(d, 0, per, SumSeed)
         IN  SmaLoop(d, per, per, window_sum,
                     <<IndicatorPoint(At(d, per - 1).ts, FDiv(window_sum, F(per)))>>)

calc_sma_impl(d, per) ==
    IF per = 0 \/ per > Len(d) THEN <<>>
    ELSE LET window_sum == SumClose(d, 0, per, SumSeed)
         IN  SmaLoop(d, per, per, window_sum,
                     <<IndicatorPoint(At(d, per - 1).ts, FDiv(window_sum, F(per)))>>)

(***************************************************************************)
(* calc_ema_impl                                                           *)
(***************************************************************************)
\* the loop `for i in period..data.len()`
RECURSIVE EmaLoop(_, _, _, _, _)
EmaLoop(d, k, i, prev_ema, res) ==
    IF i >= Len(d) THEN res
    ELSE LET ema == FAdd(FMul(At(d, i).close, k), FMul(prev_ema, FSub(F(1), k)))
         IN  EmaLoop(d, k, i + 1, ema, Append(res, IndicatorPoint(At(d, i).ts, ema)))

\* EmaSeed taking the close of the seed bar instead of the SMA
EmaSeed_Close(d, per) == At(d, per - 1).close

\* seed of the EMA: SMA of the first `period` closes
EmaSeed(d, per) == FDiv(SumClose(d, 0, per, SumSeed), F(per))

calc_ema_impl(d, per) ==
    IF per = 0 \/ per > Len(d) THEN <<>>
    ELSE LET k == FDiv(F(2), F(per + 1))
             sma == EmaSeed(d, per)
         IN  EmaLoop(d, k, per, sma, <<IndicatorPoint(At(d, per - 1).ts, sma)>>)

(***************************************************************************)
(* calc_rsi_impl                                                           *)
(***************************************************************************)
\* RsiInit summing the signed change into avg_loss (the .abs() forgotten)
RECURSIVE RsiInit_Signed(_, _, _, _, _)
RsiInit_Signed(d, per, i, avg_gain, avg_loss) ==
    IF i > per THEN <<avg_gain, avg_loss>>
    ELSE LET change == FSub(At(d, i).close, At(d, i - 1).close)
         IN  IF FGt(change, F(0))
             THEN RsiInit_Signed(d, per, i + 1, FAdd(avg_gain, change), avg_loss)
             ELSE RsiInit_Signed(d, per, i + 1, avg_gain, FAdd(avg_loss, change))

\* the loop `for i in 1..=period`, accumulating <<avg_gain, avg_loss>>
RECURSIVE RsiInit(_, _, _, _, _)
RsiInit(d, per, i, avg_gain, avg_loss) ==
    IF i > per THEN <<avg_gain, avg_loss>>
    ELSE LET change == FSub(At(d, i).close, At(d, i - 1).close)
         IN  IF FGt(change, F(0))
             THEN RsiInit(d, per, i + 1, FAdd(avg_gain, change), avg_loss)
             ELSE RsiInit(d, per, i + 1, avg_gain, FAdd(avg_loss, FAbs(change)))

\* RsiValue testing avg_gain before avg_loss
RsiValue_GainFirst(avg_gain, avg_loss) ==
    IF FEq(avg_gain, F(0)) THEN F(0)
    ELSE IF FEq(avg_loss, F(0)) THEN F(100)
    ELSE LET rs == FDiv(avg_gain, avg_loss)
         IN  FSub(F(100), FDiv(F(100), FAdd(F(1), rs)))

\* the zero-division policy and the RSI formula
RsiValue(avg_gain, avg_loss) ==
    IF FEq(avg_loss, F(0)) THEN F(100)
    ELSE IF FEq(avg_gain, F(0)) THEN F(0)
    ELSE LET rs == FDiv(avg_gain, avg_loss)
         IN  FSub(F(100), FDiv(F(100), FAdd(F(1), rs)))

\* Wilder's smoothing of one average
Wilder(avg, per, x) ==
    FDiv(FAdd(FMul(avg, FSub(F(per), F(1))), x), F(per))

\* RsiLoop with gain and loss of a transition swapped
RECURSIVE RsiLoop_Swapped(_, _, _, _, _, _)
RsiLoop_Swapped(d, per, i, avg_gain, avg_loss, res) ==
    IF i >= Len(d) THEN res
    ELSE LET change == FSub(At(d, i).close, At(d, i - 1).close)
             gain == IF FGt(change, F(0)) THEN F(0) ELSE FAbs(change)
             loss == IF FGt(change, F(0)) THEN change ELSE F(0)
             ag == Wilder(avg_gain, per, gain)
             al == Wilder(avg_loss, per, loss)
         IN  RsiLoop_Swapped(d, per, i + 1, ag, al,
                     Append(res, IndicatorPoint(At(d, i).ts, RsiValue(ag, al))))

\* the loop `for i in (period + 1)..data.len()`
RECURSIVE RsiLoop(_, _, _, _, _, _)
RsiLoop(d, per, i, avg_gain, avg_loss, res) ==
    IF i >= Len(d) THEN res
    ELSE LET change == FSub(At(d, i).close, At(d, i - 1).close)
             gain == IF FGt(change, F(0)) THEN change ELSE F(0)
             loss == IF FGt(change, F(0)) THEN F(0) ELSE FAbs(change)
             ag == Wilder(avg_gain, per, gain)
             al == Wilder(avg_loss, per, loss)
         IN  RsiLoop(d, per, i + 1, ag, al,
                     Append(res, IndicatorPoint(At(d, i).ts, RsiValue(ag, al))))

\* calc_rsi_impl panics instead of returning.  `period + 1` in the guard
\* does not fit a usize when period is usize::MAX: a build with overflow
\* checks panics there; a build without them computes 0, the guard lets the
\* call through, and data[i] in `for i in 1..=period` panics at i = len.
calc_rsi_impl_panics(d, per) ==
    \/ per # 0 /\ UsizeOverflows(per, 1)
    \/ /\ ~(per = 0 \/ Len(d) < UsizeWrappingAdd(per, 1))
       /\ per >= Len(d)

\* the value calc_rsi_impl returns when it does not panic
calc_rsi_impl(d, per) ==
    IF per = 0 \/ Len(d) < UsizeWrappingAdd(per, 1) THEN <<>>
    ELSE LET sums == RsiInit(d, per, 1, F(0), F(0))
             avg_gain == FDiv(sums[1], F(per))
             avg_loss == FDiv(sums[2], F(per))
         IN  RsiLoop(d, per, per + 1, avg_gain, avg_loss,
                     <<IndicatorPoint(At(d, per).ts, RsiValue(avg_gain, avg_loss))>>)

(***************************************************************************)
(* calc_vwap_impl                                                          *)
(***************************************************************************)
\* (p.high + p.low + p.close) / 3.0
TypicalPrice(p) == FDiv(FAdd(FAdd(p.high, p.low), p.close), F(3))

\* VwapValue falling back to the bar's typical price
VwapValue_Typical(cum_tp_vol, cum_vol, typical_price) ==
    IF FEq(cum_vol, F(0)) THEN typical_price ELSE FDiv(cum_tp_vol, cum_vol)

\* if cum_vol == 0.0 { 0.0 } else { cum_tp_vol / cum_vol }
VwapValue(cum_tp_vol, cum_vol, typical_price) ==
    IF FEq(cum_vol, F(0)) THEN F(0) ELSE FDiv(cum_tp_vol, cum_vol)

\* the loop `for p in data`
RECURSIVE VwapLoop(_, _, _, _, _)
VwapLoop(d, i, cum_tp_vol, cum_vol, res) ==
    IF i >= Len(d) THEN res
    ELSE LET p == At(d, i)
             typical_price == TypicalPrice(p)
             ctv == FAdd(cum_tp_vol, FMul(typical_price, p.volume))
             cv == FAdd(cum_vol, p.volume)
         IN  VwapLoop(d, i + 1, ctv, cv,
                      Append(res, IndicatorPoint(p.ts, VwapValue(ctv, cv, typical_price))))

calc_vwap_impl(d) ==
    IF Len(d) = 0 THEN <<>> ELSE VwapLoop(d, 0, F(0), F(0), <<>>)

(***************************************************************************)
(* wasm entry points.  The JsValue arguments are taken as well formed, so  *)
(* from_value yields the sequence the host passed.                         *)
(***************************************************************************)
lttb_downsample(d, thr) == lttb_downsample_impl(d, thr)

calc_sma(d, per) == calc_sma_impl(d, per)

calc_ema(d, per) == calc_ema_impl(d, per)

calc_rsi(d, per) == calc_rsi_impl(d, per)

\* calc_vwap with a reset mode: when o.resetOnGap holds and a bar is later than
\* its predecessor by more than o.gapThreshold, the sums restart at that bar
RECURSIVE VwapResetLoop(_, _, _, _, _, _)
VwapResetLoop(d, o, i, cum_tp_vol, cum_vol, res) ==
    IF i >= Len(d) THEN res
    ELSE LET p == At(d, i)
             reset == /\ o.resetOnGap
                      /\ i > 0
                      /\ FGt(FSub(p.ts, At(d, i - 1).ts), o.gapThreshold)
             typical_price == TypicalPrice(p)
             ctv == FAdd(IF reset THEN F(0) ELSE cum_tp_vol,
                         FMul(typical_price, p.volume))
             cv == FAdd(IF reset THEN F(0) ELSE cum_vol, p.volume)
         IN  VwapResetLoop(d, o, i + 1, ctv, cv,
                 Append(res, IndicatorPoint(p.ts, VwapValue(ctv, cv, typical_price))))

calc_vwap_WithReset(d, o) == VwapResetLoop(d, o, 0, F(0), F(0), <<>>)

\* calc_vwap has the single parameter `data`: whatever options the host
\* holds for the call never reach calc_vwap_impl
calc_vwap(d, o) == calc_vwap_impl(d)

(***************************************************************************)
(* Inputs.                                                                 *)
(***************************************************************************)
\* samples at timestamps 0, 1, 2, ... with the given values
Samples(vs) == [i \in 1..Len(vs) |-> DataPoint(F(i - 1), F(vs[i]))]

\* bars at timestamps 1, 2, 3, ... with the given f64 closes
PriceBars(fs) ==
    [i \in 1..Len(fs) |-> PricePoint(F(i), fs[i], fs[i], fs[i], fs[i], F(1))]

\* bars at timestamps 1, 2, 3, ... with the given integer closes
CloseBars(cs) == PriceBars([i \in 1..Len(cs) |-> F(cs[i])])

\* n / 10 as the f64 literal 0.n
Tenths(n) == FDiv(F(n), F(10))

\* closes whose sums and differences are rounded, so that a window sum kept
\* by adding the new close and subtracting the dropped one differs from the
\* sum of the window taken afresh (1e16 is 1e8 * 1e8)
RoundedCloses ==
    { <<FMul(F(100000000), F(100000000)), F(1), F(1)>>,
      <<F(1000000000), Tenths(1), Tenths(1)>>,
      <<Tenths(1), Tenths(2), Tenths(3), Tenths(4)>>,
      <<Tenths(4), Tenths(3), Tenths(2), Tenths(1)>> }

RECURSIVE SumGaps(_, _)
SumGaps(gs, i) == IF i = 0 THEN 0 ELSE SumGaps(gs, i - 1) + gs[i]

\* bars with high 3 and low 1, the given closes and volumes, each bar later
\* than its predecessor by the given gap
VolumeBars(cs, vs, gs) ==
    [i \in 1..Len(cs) |->
        PricePoint(F(SumGaps(gs, i)), F(cs[i]), F(3), F(1), F(cs[i]), F(vs[i]))]

SeqsUpTo(S, n) == UNION {[1..k -> S] : k \in 0..n}

NoOpts == [resetOnGap |-> FALSE, gapThreshold |-> F(0)]

\* calls <<values, threshold>> in which the rounding of bucket_size or of
\* the average of a bucket decides a bucket boundary or the point selected
RoundedCalls ==
    { <<<<0, 0, 1, 0, 2, 2, 0>>, 4>>,
      <<<<5, 3, 8, 3, 9, 7, 1, 8, 9, 4>>, 5>>,
      <<<<0, 0, 0, 0, 0, 0, 0, 0, 0, 0, 0, 0, 0, 0, 1, 5, 0>>, 13>> }

InitLttb ==
    /\ fn = "lttb_downsample"
    /\ \/ /\ data \in {Samples(vs) : vs \in SeqsUpTo(0..MaxValue, MaxLen)}
          /\ threshold \in 0..MaxThreshold \cup {USIZE_MAX}
       \/ \E c \in RoundedCalls : data = Samples(c[1]) /\ threshold = c[2]
    /\ bars = <<>>
    /\ period = 0
    /\ opts = NoOpts

InitIndicator ==
    /\ fn \in {"calc_sma", "calc_ema", "calc_rsi"}
    /\ bars \in {CloseBars(cs) : cs \in SeqsUpTo(1..MaxClose, MaxBars)}
                \cup {PriceBars(fs) : fs \in RoundedCloses}
    /\ period \in 0..MaxPeriod \cup {USIZE_MAX}
    /\ data = <<>>
    /\ threshold = 0
    /\ opts = NoOpts

InitVwap ==
    /\ fn = "calc_vwap"
    /\ \E k \in 0..MaxVwapBars :
         \E cs \in [1..k -> 1..2], vs \in [1..k -> 0..MaxVolume],
            gs \in [1..k -> {1, MaxGap}] :
              bars = VolumeBars(cs, vs, gs)
    /\ opts \in [resetOnGap : BOOLEAN, gapThreshold : {F(MaxGap - 1), F(MaxGap)}]
    /\ data = <<>>
    /\ threshold = 0
    /\ period = 0

Init ==
    /\ pc = "called"
    /\ result = <<>>
    /\ (InitIndicator \/ InitLttb \/ InitVwap)

(***************************************************************************)
(* One action per entry point: the call runs to its return.                *)
(***************************************************************************)
Return(r) ==
    /\ result' = r
    /\ pc' = "returned"
    /\ UNCHANGED <<fn, data, threshold, bars, period, opts>>

\* a panic unwinds out of the entry point: nothing is returned
Panic ==
    /\ result' = <<>>
    /\ pc' = "panicked"
    /\ UNCHANGED <<fn, data, threshold, bars, period, opts>>

LttbDownsample ==
    /\ pc = "called" /\ fn = "lttb_downsample"
    /\ Return(lttb_downsample(data, threshold))

CalcSma ==
    /\ pc = "called" /\ fn = "calc_sma"
    /\ Return(calc_sma(bars, period))

CalcEma ==
    /\ pc = "called" /\ fn = "calc_ema"
    /\ Return(calc_ema(bars, period))

CalcRsi ==
    /\ pc = "called" /\ fn = "calc_rsi"
    /\ IF calc_rsi_impl_panics(bars, period)
       THEN Panic
       ELSE Return(calc_rsi(bars, period))

CalcVwap ==
    /\ pc = "called" /\ fn = "calc_vwap"
    /\ Return(calc_vwap(bars, opts))

Next == LttbDownsample \/ CalcSma \/ CalcEma \/ CalcRsi \/ CalcVwap

Spec == Init /\ [][Next]_vars

Returned(f) == pc = "returned" /\ fn = f

(***************************************************************************)
(* Properties.                                                             *)
(***************************************************************************)
ValidPeriod == 1 <= period /\ period <= Len(bars)

\* mean of the closes of bars j .. j + per - 1 (0-based), summed afresh
WindowMean(d, j, per) == FDiv(SumClose(d, j, j + per, SumSeed), F(per))

StrictlyIncreasing(d) ==
    \A i \in 1..(Len(d) - 1) : FLt(d[i].close, d[i + 1].close)

StrictlyDecreasing(d) ==
    \A i \in 1..(Len(d) - 1) : FGt(d[i].close, d[i + 1].close)

\* sum of volume over bars 0..i (0-based)
RECURSIVE CumVolume(_, _)
CumVolume(d, i) ==
    IF i < 0 THEN F(0) ELSE FAdd(CumVolume(d, i - 1), At(d, i).volume)

\* sum of typical_price * volume over bars 0..i (0-based)
RECURSIVE CumTypicalVolume(_, _)
CumTypicalVolume(d, i) ==
    IF i < 0 THEN F(0)
    ELSE FAdd(CumTypicalVolume(d, i - 1),
              FMul(TypicalPrice(At(d, i)), At(d, i).volume))

\* bar i (0-based, i >= 1) is later than bar i - 1 by more than the threshold
GapExceeds(d, i, thr) == FGt(FSub(At(d, i).ts, At(d, i - 1).ts), thr)

\* first bar of the session of bar i when sessions are split at such gaps
RECURSIVE SessionStart(_, _, _)
SessionStart(d, i, thr) ==
    IF i = 0 \/ GapExceeds(d, i, thr) THEN i ELSE SessionStart(d, i - 1, thr)

\* C1: when lttb_downsample_impl reduces (threshold >= 3 and more samples
\* than threshold) it returns exactly `threshold` samples, the first being
\* the first input sample and the last the last input sample.
ThmC1 ==
    (Returned("lttb_downsample") /\ threshold >= 3 /\ Len(data) > threshold)
        => /\ Len(result) = threshold
           /\ result[1] = data[1]
           /\ result[Len(result)] = data[Len(data)]

WitC1 ==
    /\ Returned("lttb_downsample")
    /\ threshold = 4 /\ Len(data) = 6
    /\ Len(result) = 4 /\ result[1] = data[1] /\ result[4] = data[6]

\* C2: for an empty input, a threshold below 3, or no more samples than the
\* threshold, lttb_downsample_impl returns the input sequence itself.
ThmC2 ==
    (Returned("lttb_downsample")
        /\ (Len(data) = 0 \/ threshold < 3 \/ Len(data) <= threshold))
        => result = data

WitC2 ==
    /\ Returned("lttb_downsample")
    /\ threshold < 3 /\ Len(data) > 3
    /\ result = data

\* C3: calc_sma_impl returns nothing for period 0 or a period longer than
\* the bars; otherwise len - period + 1 points, point j (0-based) carrying
\* the timestamp of bar period - 1 + j.
ThmC3 ==
    Returned("calc_sma")
        => IF period = 0 \/ period > Len(bars)
           THEN result = <<>>
           ELSE /\ Len(result) = Len(bars) - period + 1
                /\ \A j \in 0..(Len(result) - 1) :
                      At(result, j).ts = At(bars, period - 1 + j).ts

WitC3 ==
    /\ Returned("calc_sma")
    /\ period = Len(bars) /\ Len(bars) >= 2
    /\ Len(result) = 1 /\ result[1].ts = bars[period].ts

\* C4 as stated: for a valid period every SMA value equals the mean of the
\* closes of its window: the incrementally maintained window sum always
\* equals the sum taken afresh over bars j .. j + period - 1.
OrigC4 ==
    (Returned("calc_sma") /\ ValidPeriod)
        => \A j \in 0..(Len(result) - 1) :
              FEq(At(result, j).value, WindowMean(bars, j, period))

\* the window sum behind output point j (0-based): the sum of the first
\* `per` closes, then one step `+ (new close - dropped close)` per point
RECURSIVE SlidingSum(_, _, _)
SlidingSum(d, per, j) ==
    IF j = 0 THEN SumClose(d, 0, per, SumSeed)
    ELSE FAdd(SlidingSum(d, per, j - 1),
              FSub(At(d, per - 1 + j).close, At(d, j - 1).close))

\* an integer of magnitude below 2^31: sums and differences of fewer than
\* 2^21 of them are exact in f64
SmallInteger(a) ==
    a.k = "fin" /\ (IsZero(a) \/ (a.e >= 0 /\ BBitLen(a.m) + a.e <= 31))

ExactCloses(d) == \A i \in 1..Len(d) : SmallInteger(d[i].close)

\* C4 (amended): for a valid period the first SMA value is the mean of the
\* first `period` closes, and every value is the incrementally maintained
\* window sum divided by period.  That sum equals the sum taken afresh over
\* bars j .. j + period - 1, and the value the mean of the window, when the
\* closes are integers whose sums are exact in f64; for other closes the two
\* agree up to f64 rounding only.
ThmC4 ==
    (Returned("calc_sma") /\ ValidPeriod)
        => /\ FEq(result[1].value, WindowMean(bars, 0, period))
           /\ \A j \in 0..(Len(result) - 1) :
                 FEq(At(result, j).value,
                     FDiv(SlidingSum(bars, period, j), F(period)))
           /\ ExactCloses(bars)
                 => \A j \in 0..(Len(result) - 1) :
                       FEq(At(result, j).value, WindowMean(bars, j, period))

\* closes 1e16, 1, 1 with period 2: the first value is the mean of its window,
\* the second is 0 where the mean of its window is 1
WitC4 ==
    /\ Returned("calc_sma")
    /\ period = 2 /\ Len(bars) = 3
    /\ ~ExactCloses(bars)
    /\ FEq(result[1].value, WindowMean(bars, 0, 2))
    /\ FEq(WindowMean(bars, 1, 2), F(1))
    /\ FEq(result[2].value, F(0))

\* C5: for a valid period the first EMA value is the first SMA value of the
\* same bars and period.
ThmC5 ==
    (Returned("calc_ema") /\ ValidPeriod)
        => FEq(result[1].value, calc_sma_impl(bars, period)[1].value)

WitC5 ==
    /\ Returned("calc_ema")
    /\ period = 3 /\ Len(bars) = 4
    /\ bars[1].close # bars[3].close
    /\ FEq(result[1].value, WindowMean(bars, 0, 3))

\* C6: every value calc_rsi_impl returns lies in [0, 100].
ThmC6 ==
    Returned("calc_rsi")
        => \A j \in 1..Len(result) :
              FLe(F(0), result[j].value) /\ FLe(result[j].value, F(100))

WitC6 ==
    /\ Returned("calc_rsi")
    /\ Len(result) >= 2
    /\ \A j \in 1..Len(result) :
          FLt(F(0), result[j].value) /\ FLt(result[j].value, F(100))

\* C7: with period >= 1 and at least period + 1 bars, strictly increasing
\* closes give RSI 100 at every point and strictly decreasing closes give 0.
ThmC7 ==
    (Returned("calc_rsi") /\ period >= 1 /\ Len(bars) >= period + 1)
        => /\ StrictlyIncreasing(bars)
                => \A j \in 1..Len(result) : FEq(result[j].value, F(100))
           /\ StrictlyDecreasing(bars)
                => \A j \in 1..Len(result) : FEq(result[j].value, F(0))

WitC7 ==
    /\ Returned("calc_rsi")
    /\ period = 2 /\ Len(bars) = 4
    /\ StrictlyDecreasing(bars)
    /\ Len(result) = 2 /\ FEq(result[2].value, F(0))

\* the call has ended, by returning or by panicking
Ended(f) == pc # "called" /\ fn = f

\* C8: calc_rsi_impl returns nothing for period 0 or fewer than period + 1
\* bars; otherwise len - period points, one per bar from bar `period` to the
\* last bar, in input order.
OrigC8 ==
    Ended("calc_rsi")
        => /\ pc = "returned"
           /\ IF period = 0 \/ Len(bars) - 1 < period
              THEN result = <<>>
              ELSE /\ Len(result) = Len(bars) - period
                   /\ \A j \in 0..(Len(result) - 1) :
                         At(result, j).ts = At(bars, period + j).ts

\* C9 as stated: one VWAP point per bar, timestamped at the bar, equal to
\* cum_typical_volume / cum_volume when cum_volume > 0 and to the bar's own
\* typical price otherwise.
OrigC9 ==
    Returned("calc_vwap")
        => /\ Len(result) = Len(bars)
           /\ \A i \in 0..(Len(bars) - 1) :
                /\ At(result, i).ts = At(bars, i).ts
                /\ FEq(At(result, i).value,
                       IF FGt(CumVolume(bars, i), F(0))
                       THEN FDiv(CumTypicalVolume(bars, i), CumVolume(bars, i))
                       ELSE TypicalPrice(At(bars, i)))

\* C9 (amended): one VWAP point per bar, timestamped at the bar, equal to
\* cum_typical_volume / cum_volume when cum_volume is not zero and to 0 when
\* cum_volume is zero; no value is the outcome of a division by zero.
ThmC9 ==
    Returned("calc_vwap")
        => /\ Len(result) = Len(bars)
           /\ \A i \in 0..(Len(bars) - 1) :
                /\ At(result, i).ts = At(bars, i).ts
                /\ ~IsNaN(At(result, i).value)
                /\ FEq(At(result, i).value,
                       IF FEq(CumVolume(bars, i), F(0))
                       THEN F(0)
                       ELSE FDiv(CumTypicalVolume(bars, i), CumVolume(bars, i)))

WitC9 ==
    /\ Returned("calc_vwap")
    /\ Len(bars) = 2
    /\ FEq(bars[1].volume, F(0)) /\ FGt(bars[2].volume, F(0))
    /\ FEq(result[1].value, F(0))
    /\ FEq(result[2].value, TypicalPrice(bars[2]))

\* C10 as stated: with the reset mode enabled, a bar later than its
\* predecessor by more than the gap threshold restarts the running sums, so
\* the VWAP of a bar is taken over the bars of its session only; with the
\* mode disabled it is taken over all bars from the start of the series.
\* (Stated where the volume summed is positive.)
OrigC10 ==
    Returned("calc_vwap")
        => \A i \in 0..(Len(bars) - 1) :
              LET s == IF opts.resetOnGap
                       THEN SessionStart(bars, i, opts.gapThreshold)
                       ELSE 0
                  vol == FSub(CumVolume(bars, i), CumVolume(bars, s - 1))
                  tpv == FSub(CumTypicalVolume(bars, i),
                              CumTypicalVolume(bars, s - 1))
              IN  FGt(vol, F(0)) => FEq(At(result, i).value, FDiv(tpv, vol))

\* C10 (amended): calc_vwap has no reset mode: whatever mode and threshold
\* the host holds, a gap of any size leaves the running sums alone, so the
\* VWAP of the bar after the gap is still taken over all bars from the start
\* of the series.
ThmC10 ==
    Returned("calc_vwap")
        => \A i \in 1..(Len(bars) - 1) :
              (GapExceeds(bars, i, opts.gapThreshold)
                  /\ FGt(CumVolume(bars, i), F(0)))
                  => FEq(At(result, i).value,
                         FDiv(CumTypicalVolume(bars, i), CumVolume(bars, i)))

WitC10 ==
    /\ Returned("calc_vwap")
    /\ opts.resetOnGap
    /\ Len(bars) = 2
    /\ GapExceeds(bars, 1, opts.gapThreshold)
    /\ FGt(bars[1].volume, F(0)) /\ FGt(bars[2].volume, F(0))
    /\ ~FEq(result[2].value, TypicalPrice(bars[2]))

\* the reduction path of lttb_downsample_impl was taken
Reduced == Returned("lttb_downsample") /\ threshold >= 3 /\ Len(data) > threshold

\* index in `data` of a sample: the samples are at timestamps 0, 1, 2, ...
IndexOf(p) == AsUsize(p.ts)

\* the indices bucket_start .. bucket_end.min(len) - 1 scanned for bucket i
BucketIndices(i) ==
    LET bucket_size == BucketSize(Len(data), threshold)
    IN  BucketStart(i, bucket_size) ..
            (Min(BucketEnd(i, bucket_size, Len(data)), Len(data)) - 1)

\* area of the triangle of the point selected before bucket i, the point at
\* index j, and the average point of bucket i + 1
AreaIn(i, j) ==
    TriangleArea(result[i + 1],
                 NextBucketAvg(data, i, BucketSize(Len(data), threshold)),
                 At(data, j))

\* C11: in the reduction path the point selected for bucket i is a point of
\* bucket i whose triangle area, against the point selected for bucket i - 1
\* (the first sample for bucket 0) and the average of bucket i + 1, is maximal
\* in the bucket, and no point of the bucket before it has that area.
ThmC11 ==
    Reduced
        => \A i \in 0..(threshold - 3) :
              LET sel == IndexOf(result[i + 2])
                  prev == result[i + 1]
                  avg == NextBucketAvg(data, i, BucketSize(Len(data), threshold))
                  best == TriangleArea(prev, avg, result[i + 2])
              IN  /\ sel \in BucketIndices(i)
                  /\ result[i + 2] = At(data, sel)
                  /\ \A j \in BucketIndices(i) :
                        LET area == TriangleArea(prev, avg, At(data, j))
                        IN  /\ FLe(area, best)
                            /\ j < sel => FLt(area, best)

WitC11 ==
    /\ Reduced
    /\ threshold = 4 /\ Len(data) = 6
    /\ IndexOf(result[2]) = 2
    /\ \E j \in BucketIndices(1) :
          /\ j > IndexOf(result[3])
          /\ FEq(AreaIn(1, j), AreaIn(1, IndexOf(result[3])))
          /\ FGt(AreaIn(1, j), F(0))

\* C12: in the reduction path every bucket [bucket_start, bucket_end) is
\* non-empty and lies within the interior indices 1 .. len - 2, every index
\* read (the scanned indices of the bucket and of the next bucket, and the
\* initial max_idx = bucket_start) is below len, and the selected points are
\* samples of the input at strictly increasing indices.
ThmC12 ==
    Reduced
        => LET len == Len(data)
               bucket_size == BucketSize(len, threshold)
           IN  /\ \A i \in 0..(threshold - 3) :
                    LET bucket_start == BucketStart(i, bucket_size)
                        bucket_end == BucketEnd(i, bucket_size, len)
                        next_bucket_start == BucketStart(i + 1, bucket_size)
                        next_bucket_end == BucketEnd(i + 1, bucket_size, len)
                    IN  /\ bucket_start < bucket_end
                        /\ 1 <= bucket_start /\ bucket_end - 1 <= len - 2
                        /\ bucket_start < len
                        /\ next_bucket_start <= next_bucket_end
                        /\ next_bucket_end <= len
               /\ Len(result) = threshold
               /\ \A k \in 1..Len(result) :
                    /\ IndexOf(result[k]) \in 0..(len - 1)
                    /\ result[k] = At(data, IndexOf(result[k]))
               /\ \A k \in 1..(Len(result) - 1) :
                    IndexOf(result[k]) < IndexOf(result[k + 1])

WitC12 ==
    /\ Reduced
    /\ threshold = 5 /\ Len(data) = 6
    /\ BucketIndices(0) = {1} /\ BucketIndices(1) = {2}
    /\ BucketIndices(2) = {3, 4}
    /\ IndexOf(result[2]) = 1 /\ IndexOf(result[3]) = 2
    /\ IndexOf(result[4]) = 4 /\ IndexOf(result[5]) = 5

\* positive and negative part of transition i (bar i against bar i - 1)
GainOf(d, i) ==
    LET c == FSub(At(d, i).close, At(d, i - 1).close)
    IN  IF FGt(c, F(0)) THEN c ELSE F(0)

LossOf(d, i) ==
    LET c == FSub(At(d, i).close, At(d, i - 1).close)
    IN  IF FLt(c, F(0)) THEN FSub(F(0), c) ELSE F(0)

RECURSIVE SumGain(_, _)
SumGain(d, i) == IF i < 1 THEN F(0) ELSE FAdd(SumGain(d, i - 1), GainOf(d, i))

RECURSIVE SumLoss(_, _)
SumLoss(d, i) == IF i < 1 THEN F(0) ELSE FAdd(SumLoss(d, i - 1), LossOf(d, i))

\* <<avg_gain, avg_loss>> behind output point j (0-based): the means over the
\* first `per` transitions, then one Wilder step per further bar
RECURSIVE AveragesAt(_, _, _)
AveragesAt(d, per, j) ==
    IF j = 0
    THEN <<FDiv(SumGain(d, per), F(per)), FDiv(SumLoss(d, per), F(per))>>
    ELSE LET a == AveragesAt(d, per, j - 1)
         IN  <<FDiv(FAdd(FMul(a[1], F(per - 1)), GainOf(d, per + j)), F(per)),
               FDiv(FAdd(FMul(a[2], F(per - 1)), LossOf(d, per + j)), F(per))>>

AllClosesEqual(d) == \A i \in 1..Len(d) : d[i].close = d[1].close

\* C13: at every RSI point, the first and the smoothed ones alike, a zero
\* avg_loss gives 100 even when avg_gain is zero too, and otherwise a zero
\* avg_gain gives 0; so bars whose closes are all equal give 100 throughout.
ThmC13 ==
    Returned("calc_rsi")
        => /\ \A j \in 0..(Len(result) - 1) :
                LET a == AveragesAt(bars, period, j)
                IN  /\ FEq(a[2], F(0)) => FEq(At(result, j).value, F(100))
                    /\ (~FEq(a[2], F(0)) /\ FEq(a[1], F(0)))
                          => FEq(At(result, j).value, F(0))
           /\ AllClosesEqual(bars)
                => \A j \in 1..Len(result) : FEq(result[j].value, F(100))

WitC13 ==
    /\ Returned("calc_rsi")
    /\ period = 2 /\ Len(bars) = 4
    /\ AllClosesEqual(bars)
    /\ Len(result) = 2
    /\ FEq(result[1].value, F(100)) /\ FEq(result[2].value, F(100))

\* C14: every invalid parameter (a period of 0 or beyond the bars for sma,
\* ema and rsi, a threshold below 3 for downsample) ends the call with an
\* empty result, never with a panic, whatever the input sequence.
OrigC14 ==
    pc # "called"
        => /\ pc = "returned"
           /\ (fn \in {"calc_sma", "calc_ema"}
                 /\ (period = 0 \/ period > Len(bars)))
                 => result = <<>>
           /\ (fn = "calc_rsi" /\ (period = 0 \/ period > Len(bars) - 1))
                 => result = <<>>
           /\ (fn = "lttb_downsample" /\ threshold < 3)
                 => result = <<>>

====
